---- MODULE Spec2Model ----
(***************************************************************************)
(* Model of src/src/VirtualTryOn.js: the VirtualTryOn React component.     *)
(*                                                                         *)
(* One component instance (one session).  The state is the component's     *)
(* refs and React state, the position of the async function loadResources, *)
(* the interval timers created by the scheduling effect together with the  *)
(* values their closure captured, the detection calls in flight, the video *)
(* element read by the scheduler and the glasses object (the overlay).     *)
(*                                                                         *)
(* Numbers are exact: a position is kept in units of 1/PosDen, a scale s   *)
(* is kept as (s * ScaleDen)^2 (so that the square root of the eye         *)
(* distance is never rounded), and an angle returned by Math.atan2 is kept *)
(* as a sign and the primitive integer direction of its ray.               *)
(***************************************************************************)
EXTENDS Integers, Sequences, FiniteSets, TLC

\* ---------------------------------------------------------------- bounds
MaxCalls == 2
MaxCoord == 2

\* ------------------------------------------------------ program constants
LeftEyeIdx == 130
RightEyeIdx == 359
NoseTipIdx == 70
EyeCenterIdx == 168
EyeDistanceRef == 250
ScaleXDen == 100
ScaleYDen == 100
OffsetX == 0
OffsetY == -20
PositionZ == 1
InitialScalePct == 5
HAVE_NOTHING == 0
HAVE_ENOUGH_DATA == 4

Null == "null"
NoObject == [absent |-> TRUE]

PosDen == 2 * ScaleXDen
ScaleDen == 2 * EyeDistanceRef

\* ------------------------------------------------------------ input sets
Points == {<<0, 0>>, <<1, 0>>, <<1, 1>>}
LandmarkIdx == {LeftEyeIdx, RightEyeIdx, NoseTipIdx, EyeCenterIdx}
KeypointSets == [LandmarkIdx -> Points]
FrameSizes == {<<3, 2>>}
ReadyStates == {HAVE_NOTHING, HAVE_ENOUGH_DATA}

\* the wider inputs of the pose computation taken on its own
PosePoints == (0 .. MaxCoord) \X (0 .. MaxCoord)
PoseKeypointSets == [LandmarkIdx -> PosePoints]
PoseFrameSizes == {<<3, 2>>, <<4, 4>>}

VARIABLES
    mounted,        \* the component is mounted
    webcamRef,      \* webcamRef.current is set
    canvasRef,      \* canvasRef.current is set
    video,          \* webcamRef.current.video: readyState, videoWidth, videoHeight
    model,          \* React state `model`
    glassesMesh,    \* React state `glassesMesh`
    isLoading,      \* React state `isLoading`
    glasses,        \* the gltf.scene object: its position, scale, rotation
    pc,             \* where loadResources stands
    failure,        \* the initialization error reported on the console
    deps,           \* [model, glassesMesh] of the latest run of the scheduling effect
    intervals,      \* active interval timers: id -> the values its callback captured
    nextIntervalId, \* the id the next setInterval returns
    stopped,        \* ids of the timers whose clearInterval has run
    calls,          \* the estimateFaces calls issued so far, in issue order
    lastTick        \* the latest interval callback: its timer and what it did

vars == <<mounted, webcamRef, canvasRef, video, model, glassesMesh, isLoading,
          glasses, pc, failure, deps, intervals, nextIntervalId, stopped,
          calls, lastTick>>

\* ------------------------------------------------------------ arithmetic
Abs(n) == IF n < 0 THEN -n ELSE n

Sgn(n) == IF n < 0 THEN -1 ELSE IF n > 0 THEN 1 ELSE 0

RECURSIVE GCD(_, _)
GCD(a, b) == IF b = 0 THEN a ELSE GCD(b, a % b)

\* Math.atan2(y, x): the angle of the ray through (x, y), kept exactly as
\* sign * (angle of the ray through (dx, dy) with dy >= 0).  atan2(0, x) is 0
\* for x >= 0 and pi for x < 0.
Atan2(y, x) ==
    IF y = 0
    THEN IF x >= 0 THEN [sign |-> 0, dy |-> 0, dx |-> 1]
                   ELSE [sign |-> 1, dy |-> 0, dx |-> -1]
    ELSE LET g == GCD(Abs(y), Abs(x))
         IN [sign |-> Sgn(y), dy |-> Abs(y) \div g,
             dx |-> Sgn(x) * (Abs(x) \div g)]

\* unary minus on an angle
Neg(a) == [a EXCEPT !.sign = -a.sign]

ZeroAngle == [sign |-> 0, dy |-> 0, dx |-> 1]

\* --------------------------------------------------- the pose computation
\* eyeDistance squared (lines 100-103 before the square root)
EyeDistanceSq(kp) ==
    LET leftEye == kp[LeftEyeIdx]
        rightEye == kp[RightEyeIdx]
    IN (rightEye[1] - leftEye[1]) * (rightEye[1] - leftEye[1])
       + (rightEye[2] - leftEye[2]) * (rightEye[2] - leftEye[2])

\* scaleMultiplier = eyeDistance / 250, kept as (scaleMultiplier * ScaleDen)^2
ScaleMultiplier(kp) ==
    (EyeDistanceSq(kp) * ScaleDen * ScaleDen) \div (EyeDistanceRef * EyeDistanceRef)

\* position.x measured from the right edge of the frame instead of its centre
PositionXOf_FullWidth(kp, v) ==
    ((2 * kp[EyeCenterIdx][1] - 2 * v.videoWidth) * PosDen) \div (2 * ScaleXDen) + OffsetX

\* position.x = (eyeCenter[0] - video.videoWidth / 2) * scaleX + offsetX
PositionXOf(kp, v) ==
    ((2 * kp[EyeCenterIdx][1] - v.videoWidth) * PosDen) \div (2 * ScaleXDen) + OffsetX

\* position.y = (eyeCenter[1] - video.videoHeight / 2) * -scaleY + offsetY
PositionYOf(kp, v) ==
    (-((2 * kp[EyeCenterIdx][2] - v.videoHeight) * PosDen)) \div (2 * ScaleYDen) + OffsetY

\* angleY with the minus sign of line 130 forgotten
AngleY_NoNeg(kp) ==
    Atan2(kp[RightEyeIdx][2] - kp[LeftEyeIdx][2],
          kp[RightEyeIdx][1] - kp[LeftEyeIdx][1])

\* eyeLine = (rightEye - leftEye); angleY = -atan2(eyeLine.y, eyeLine.x)
AngleY(kp) ==
    Neg(Atan2(kp[RightEyeIdx][2] - kp[LeftEyeIdx][2],
              kp[RightEyeIdx][1] - kp[LeftEyeIdx][1]))

\* angleX = atan2 of the vector from noseTip to eyeCenter
AngleX(kp) ==
    Atan2(kp[EyeCenterIdx][2] - kp[NoseTipIdx][2],
          kp[EyeCenterIdx][1] - kp[NoseTipIdx][1])

\* angleZ = -atan2(eyeLine.y, eyeLine.x)
AngleZ(kp) ==
    Neg(Atan2(kp[RightEyeIdx][2] - kp[LeftEyeIdx][2],
              kp[RightEyeIdx][1] - kp[LeftEyeIdx][1]))

\* scale.set called with two arguments: the z axis keeps its previous scale
PoseOf_FlatScale(kp, v) ==
    [position |-> [x |-> PositionXOf(kp, v), y |-> PositionYOf(kp, v),
                   z |-> PositionZ * PosDen],
     scale    |-> [x |-> ScaleMultiplier(kp), y |-> ScaleMultiplier(kp),
                   z |-> glasses.scale.z],
     rotation |-> [x |-> AngleX(kp), y |-> AngleY(kp), z |-> AngleZ(kp)]]

\* a cycle that writes position and scale and leaves the rotation of the
\* previous cycle in place
PoseOf_KeepsRotation(kp, v) ==
    [position |-> [x |-> PositionXOf(kp, v), y |-> PositionYOf(kp, v),
                   z |-> PositionZ * PosDen],
     scale    |-> [x |-> ScaleMultiplier(kp), y |-> ScaleMultiplier(kp),
                   z |-> ScaleMultiplier(kp)],
     rotation |-> glasses.rotation]

\* the transform lines 113-145 leave on glassesMesh
PoseOf(kp, v) ==
    [position |-> [x |-> PositionXOf(kp, v), y |-> PositionYOf(kp, v),
                   z |-> PositionZ * PosDen],
     scale    |-> [x |-> ScaleMultiplier(kp), y |-> ScaleMultiplier(kp),
                   z |-> ScaleMultiplier(kp)],
     rotation |-> [x |-> AngleX(kp), y |-> AngleY(kp), z |-> AngleZ(kp)]]

\* gltf.scene as the loader hands it over, after glasses.scale.set(0.05, ...)
InitialScale == ((InitialScalePct * ScaleDen) \div 100) * ((InitialScalePct * ScaleDen) \div 100)

LoadedGlasses ==
    [position |-> [x |-> 0, y |-> 0, z |-> 0],
     scale    |-> [x |-> InitialScale, y |-> InitialScale, z |-> InitialScale],
     rotation |-> [x |-> ZeroAngle, y |-> ZeroAngle, z |-> ZeroAngle]]

\* ------------------------------------------------------------- React glue
\* a state setter called on an unmounted component changes nothing
SetState(old, new) == IF mounted THEN new ELSE old

\* the guard without the readyState test of line 87
ReadyGuard_SkipsVideoCheck(cl) ==
    /\ webcamRef
    /\ cl.model # Null
    /\ cl.glassesMesh # Null

\* the guard of line 85 returning only when both handles are missing
ReadyGuard_EitherHandle(cl) ==
    /\ webcamRef
    /\ (cl.model # Null \/ cl.glassesMesh # Null)
    /\ video.readyState = HAVE_ENOUGH_DATA

\* a drop-if-busy guard: the callback also returns while a call is in flight
ReadyGuard_DropIfBusy(cl) ==
    /\ webcamRef
    /\ cl.model # Null
    /\ cl.glassesMesh # Null
    /\ video.readyState = HAVE_ENOUGH_DATA
    /\ \A c \in 1 .. Len(calls) : calls[c].status # "pending"

\* the early returns of detectAndPositionGlasses (lines 85-87); cl holds the
\* model and glassesMesh the callback's closure captured
ReadyGuard(cl) ==
    /\ webcamRef
    /\ cl.model # Null
    /\ cl.glassesMesh # Null
    /\ video.readyState = HAVE_ENOUGH_DATA

\* faceEstimates.length > 0 (line 90)
HasFace(faceEstimates) == Len(faceEstimates) > 0

\* a cycle without a face putting the glasses back where the loader left them
SkipCycle_Reset(g) == LoadedGlasses

\* what lines 90-146 do to glassesMesh when the condition of line 90 is false
SkipCycle(g) == g

\* a cleanup that leaves the timer running
ClearInterval_Noop(timers, id) == timers

\* clearInterval(intervalId) (line 154)
ClearInterval(timers, id) == [i \in DOMAIN timers \ {id} |-> timers[i]]

\* setInterval(callback, 20) (lines 150-152): a new timer whose callback
\* closes over cl
SetInterval(timers, id, cl) ==
    [i \in DOMAIN timers \cup {id} |-> IF i = id THEN cl ELSE timers[i]]

\* an effect without a cleanup function: the previous timer keeps running
Cleanup_Skipped(timers) == timers

\* the cleanup of the scheduling effect (line 154): each run of the effect
\* clears the timer it created
Cleanup(timers) ==
    IF DOMAIN timers = {} THEN timers
    ELSE LET id == CHOOSE i \in DOMAIN timers : \A j \in DOMAIN timers : j <= i
         IN ClearInterval(timers, id)

\* the estimateFaces calls that have not settled yet
Pending == {c \in 1 .. Len(calls) : calls[c].status = "pending"}

\* the readiness flags as they stand in the current state
CameraReady == webcamRef /\ video.readyState = HAVE_ENOUGH_DATA

AllReady == CameraReady /\ model # Null /\ glassesMesh # Null

\* ------------------------------------------------------------------ Init
\* after the first render and both effects: loadResources awaits
\* getUserMedia, the first interval runs with model and glassesMesh null
Init ==
    /\ mounted = TRUE
    /\ webcamRef = TRUE
    /\ canvasRef = TRUE
    /\ video = [readyState |-> HAVE_NOTHING, videoWidth |-> 0, videoHeight |-> 0]
    /\ model = Null
    /\ glassesMesh = Null
    /\ isLoading = TRUE
    /\ glasses = NoObject
    /\ pc = "getUserMedia"
    /\ failure = "none"
    /\ deps = [model |-> Null, glassesMesh |-> Null]
    /\ intervals = SetInterval(<<>>, 1, [model |-> Null, glassesMesh |-> Null])
    /\ nextIntervalId = 2
    /\ stopped = {}
    /\ calls = <<>>
    /\ lastTick = [interval |-> 0, outcome |-> "none"]

\* --------------------------------------------------------- loadResources
\* the catch block (lines 74-77)
Catch(kind) ==
    /\ failure' = kind
    /\ pc' = "failed"
    /\ isLoading' = SetState(isLoading, FALSE)

\* getUserMedia resolves (lines 21-26); then tf.setBackend is awaited
GetUserMediaResolved ==
    /\ pc = "getUserMedia"
    /\ pc' = "setBackend"
    /\ UNCHANGED <<mounted, webcamRef, canvasRef, video, model, glassesMesh,
                   isLoading, glasses, failure, deps, intervals,
                   nextIntervalId, stopped, calls, lastTick>>

\* a camera failure that is reported while loadResources carries on
GetUserMediaRejected_Continues ==
    /\ pc = "getUserMedia"
    /\ failure' = "camera"
    /\ pc' = "setBackend"
    /\ UNCHANGED <<mounted, webcamRef, canvasRef, video, model, glassesMesh,
                   isLoading, glasses, deps, intervals, nextIntervalId,
                   stopped, calls, lastTick>>

\* getUserMedia rejects: the catch block ends loadResources
GetUserMediaRejected ==
    /\ pc = "getUserMedia"
    /\ Catch("camera")
    /\ UNCHANGED <<mounted, webcamRef, canvasRef, video, model, glassesMesh,
                   glasses, deps, intervals, nextIntervalId, stopped, calls,
                   lastTick>>

\* tf.setBackend resolves (line 29); then faceLandmarksDetection.load is awaited
SetBackendResolved ==
    /\ pc = "setBackend"
    /\ pc' = "load"
    /\ UNCHANGED <<mounted, webcamRef, canvasRef, video, model, glassesMesh,
                   isLoading, glasses, failure, deps, intervals,
                   nextIntervalId, stopped, calls, lastTick>>

SetBackendRejected ==
    /\ pc = "setBackend"
    /\ Catch("model")
    /\ UNCHANGED <<mounted, webcamRef, canvasRef, video, model, glassesMesh,
                   glasses, deps, intervals, nextIntervalId, stopped, calls,
                   lastTick>>

\* the model load resolves (lines 30-73): setModel, the Three.js setup, which
\* reads canvasRef.current and throws when it is null, then loader.load
ModelLoadResolved ==
    /\ pc = "load"
    /\ model' = SetState(model, "facemesh")
    /\ IF canvasRef
       THEN /\ pc' = "gltf"
            /\ UNCHANGED <<failure, isLoading>>
       ELSE Catch("scene")
    /\ UNCHANGED <<mounted, webcamRef, canvasRef, video, glassesMesh, glasses,
                   deps, intervals, nextIntervalId, stopped, calls, lastTick>>

ModelLoadRejected ==
    /\ pc = "load"
    /\ Catch("model")
    /\ UNCHANGED <<mounted, webcamRef, canvasRef, video, model, glassesMesh,
                   glasses, deps, intervals, nextIntervalId, stopped, calls,
                   lastTick>>

\* the loader's onLoad callback (lines 61-67)
GltfLoaded ==
    /\ pc = "gltf"
    /\ glasses' = LoadedGlasses
    /\ glassesMesh' = SetState(glassesMesh, "glasses")
    /\ isLoading' = SetState(isLoading, FALSE)
    /\ pc' = "done"
    /\ UNCHANGED <<mounted, webcamRef, canvasRef, video, model, failure,
                   deps, intervals, nextIntervalId, stopped, calls, lastTick>>

\* the loader's onError callback (lines 69-72)
GltfError ==
    /\ pc = "gltf"
    /\ failure' = "asset"
    /\ isLoading' = SetState(isLoading, FALSE)
    /\ pc' = "failed"
    /\ UNCHANGED <<mounted, webcamRef, canvasRef, video, model, glassesMesh,
                   glasses, deps, intervals, nextIntervalId, stopped, calls,
                   lastTick>>

\* ------------------------------------------------- the scheduling effect
\* React re-runs the effect when model or glassesMesh changed (line 155): the
\* cleanup of the previous run (line 154), then a new closure and a new
\* setInterval (lines 84-152)
EffectRerun ==
    /\ mounted
    /\ deps # [model |-> model, glassesMesh |-> glassesMesh]
    /\ deps' = [model |-> model, glassesMesh |-> glassesMesh]
    /\ intervals' = SetInterval(Cleanup(intervals), nextIntervalId,
                                [model |-> model, glassesMesh |-> glassesMesh])
    /\ stopped' = stopped \cup {nextIntervalId - 1}
    /\ nextIntervalId' = nextIntervalId + 1
    /\ UNCHANGED <<mounted, webcamRef, canvasRef, video, model, glassesMesh,
                   isLoading, glasses, pc, failure, calls, lastTick>>

\* the interval callback (lines 150-152) up to the await of line 89
Tick(id) ==
    /\ id \in DOMAIN intervals
    /\ IF ReadyGuard(intervals[id])
       THEN /\ Len(calls) < MaxCalls
            /\ calls' = Append(calls,
                   [interval |-> id, status |-> "pending", faces |-> -1,
                    ready |-> AllReady,
                    rejectedBefore |-> \E c \in 1 .. Len(calls) :
                                           calls[c].status = "rejected"])
            /\ lastTick' = [interval |-> id, outcome |-> "issued"]
       ELSE /\ lastTick' = [interval |-> id, outcome |-> "idle"]
            /\ UNCHANGED calls
    /\ UNCHANGED <<mounted, webcamRef, canvasRef, video, model, glassesMesh,
                   isLoading, glasses, pc, failure, deps, intervals,
                   nextIntervalId, stopped>>

\* a cycle that gives up on an empty result and clears the running timer
EstimateFacesResolved_StopsOnEmpty(c, faceEstimates) ==
    /\ c \in Pending
    /\ calls' = [calls EXCEPT ![c].status = "resolved",
                              ![c].faces = Len(faceEstimates)]
    /\ IF HasFace(faceEstimates)
       THEN /\ isLoading' = SetState(isLoading, FALSE)
            /\ glasses' = PoseOf(faceEstimates[1], video)
            /\ UNCHANGED intervals
       ELSE /\ glasses' = SkipCycle(glasses)
            /\ intervals' = Cleanup(intervals)
            /\ UNCHANGED isLoading
    /\ UNCHANGED <<mounted, webcamRef, canvasRef, video, model, glassesMesh,
                   pc, failure, deps, nextIntervalId, stopped, lastTick>>

\* model.estimateFaces resolves; lines 90-146 run to completion
EstimateFacesResolved(c, faceEstimates) ==
    /\ c \in Pending
    /\ calls' = [calls EXCEPT ![c].status = "resolved",
                              ![c].faces = Len(faceEstimates)]
    /\ IF HasFace(faceEstimates)
       THEN /\ isLoading' = SetState(isLoading, FALSE)
            /\ glasses' = PoseOf(faceEstimates[1], video)
       ELSE /\ glasses' = SkipCycle(glasses)
            /\ UNCHANGED isLoading
    /\ UNCHANGED <<mounted, webcamRef, canvasRef, video, model, glassesMesh,
                   pc, failure, deps, intervals, nextIntervalId, stopped,
                   lastTick>>

\* a rejected detection that also clears the timer that issued it
EstimateFacesRejected_StopsTimer(c) ==
    /\ c \in Pending
    /\ calls' = [calls EXCEPT ![c].status = "rejected"]
    /\ intervals' = [i \in DOMAIN intervals \ {calls[c].interval} |-> intervals[i]]
    /\ UNCHANGED <<mounted, webcamRef, canvasRef, video, model, glassesMesh,
                   isLoading, glasses, pc, failure, deps, nextIntervalId,
                   stopped, lastTick>>

\* a rejected detection that throws the model handle away (setModel(null))
EstimateFacesRejected_DropsModel(c) ==
    /\ c \in Pending
    /\ calls' = [calls EXCEPT ![c].status = "rejected"]
    /\ model' = SetState(model, Null)
    /\ UNCHANGED <<mounted, webcamRef, canvasRef, video, glassesMesh,
                   isLoading, glasses, pc, failure, deps, intervals,
                   nextIntervalId, stopped, lastTick>>

\* model.estimateFaces rejects: the promise of detectAndPositionGlasses
\* rejects and nobody handles it
EstimateFacesRejected(c) ==
    /\ c \in Pending
    /\ calls' = [calls EXCEPT ![c].status = "rejected"]
    /\ UNCHANGED <<mounted, webcamRef, canvasRef, video, model, glassesMesh,
                   isLoading, glasses, pc, failure, deps, intervals,
                   nextIntervalId, stopped, lastTick>>

\* ------------------------------------------------------- the environment
\* the video element's readyState and frame size change
VideoChange(r, size) ==
    /\ r # video.readyState
    /\ video' = IF r = HAVE_NOTHING
                THEN [readyState |-> r, videoWidth |-> 0, videoHeight |-> 0]
                ELSE [readyState |-> r, videoWidth |-> size[1],
                      videoHeight |-> size[2]]
    /\ UNCHANGED <<mounted, webcamRef, canvasRef, model, glassesMesh,
                   isLoading, glasses, pc, failure, deps, intervals,
                   nextIntervalId, stopped, calls, lastTick>>

\* the component unmounts: the effect cleanup runs (line 154), React
\* detaches the refs
Unmount ==
    /\ mounted
    /\ mounted' = FALSE
    /\ webcamRef' = FALSE
    /\ canvasRef' = FALSE
    /\ intervals' = Cleanup(intervals)
    /\ stopped' = stopped \cup {nextIntervalId - 1}
    /\ UNCHANGED <<video, model, glassesMesh, isLoading, glasses, pc, failure,
                   deps, nextIntervalId, calls, lastTick>>

Next ==
    \/ GetUserMediaResolved
    \/ GetUserMediaRejected
    \/ SetBackendResolved
    \/ SetBackendRejected
    \/ ModelLoadResolved
    \/ ModelLoadRejected
    \/ GltfLoaded
    \/ GltfError
    \/ EffectRerun
    \/ \E id \in DOMAIN intervals : Tick(id)
    \/ \E c \in Pending : \E kp \in KeypointSets : EstimateFacesResolved(c, <<kp>>)
    \/ \E c \in Pending : EstimateFacesResolved(c, <<>>)
    \/ \E c \in Pending : EstimateFacesRejected(c)
    \/ \E r \in ReadyStates, size \in FrameSizes : VideoChange(r, size)
    \/ Unmount

Spec == Init /\ [][Next]_vars

\* ------------------------------------------- the pose computation alone
\* One cycle of detectAndPositionGlasses from a state in which everything is
\* loaded and a call is in flight; kp is the face the call is going to return.
PoseInit ==
    /\ mounted = TRUE
    /\ webcamRef = TRUE
    /\ canvasRef = TRUE
    /\ \E size \in PoseFrameSizes :
          video = [readyState |-> HAVE_ENOUGH_DATA, videoWidth |-> size[1],
                   videoHeight |-> size[2]]
    /\ model = "facemesh"
    /\ glassesMesh = "glasses"
    /\ isLoading = FALSE
    /\ glasses = LoadedGlasses
    /\ pc = "done"
    /\ failure = "none"
    /\ deps = [model |-> "facemesh", glassesMesh |-> "glasses"]
    /\ intervals = SetInterval(<<>>, 3, [model |-> "facemesh",
                                         glassesMesh |-> "glasses"])
    /\ nextIntervalId = 4
    /\ stopped = {1, 2}
    /\ \E kp \in PoseKeypointSets :
          calls = <<[interval |-> 3, status |-> "pending", faces |-> -1,
                     ready |-> TRUE, rejectedBefore |-> FALSE, kp |-> kp]>>
    /\ lastTick = [interval |-> 3, outcome |-> "issued"]

\* the call in flight resolves with its face
PoseResolve == \E c \in Pending : EstimateFacesResolved(c, <<calls[c].kp>>)

\* the frame changes while the call is in flight
PoseVideoChange ==
    /\ Pending # {}
    /\ \E r \in ReadyStates, size \in PoseFrameSizes : VideoChange(r, size)

PoseNext == PoseResolve \/ PoseVideoChange

PoseSpec == PoseInit /\ [][PoseNext]_vars

\* ------------------------------------------- polling with everything ready
\* the session after loadResources succeeded and the effect re-ran with both
\* handles: the third interval is running, the video stays in ready state 4
StreakInit ==
    /\ mounted = TRUE
    /\ webcamRef = TRUE
    /\ canvasRef = TRUE
    /\ \E size \in FrameSizes :
          video = [readyState |-> HAVE_ENOUGH_DATA, videoWidth |-> size[1],
                   videoHeight |-> size[2]]
    /\ model = "facemesh"
    /\ glassesMesh = "glasses"
    /\ isLoading = TRUE
    /\ glasses = LoadedGlasses
    /\ pc = "done"
    /\ failure = "none"
    /\ deps = [model |-> "facemesh", glassesMesh |-> "glasses"]
    /\ intervals = SetInterval(<<>>, 3, [model |-> "facemesh",
                                         glassesMesh |-> "glasses"])
    /\ nextIntervalId = 4
    /\ stopped = {1, 2}
    /\ calls = <<>>
    /\ lastTick = [interval |-> 0, outcome |-> "none"]

StreakTick == \E id \in DOMAIN intervals : Tick(id)

StreakResolveEmpty == \E c \in Pending : EstimateFacesResolved(c, <<>>)

\* the faces the detector returns while polling: the right eye and the nose
\* tip move
StreakKeypointSets ==
    {kp \in KeypointSets : /\ kp[LeftEyeIdx] = <<0, 0>>
                           /\ kp[EyeCenterIdx] = <<1, 0>>}

StreakResolveFace ==
    \E c \in Pending : \E kp \in StreakKeypointSets :
        EstimateFacesResolved(c, <<kp>>)

StreakReject == \E c \in Pending : EstimateFacesRejected(c)

\* setInterval drops the promise detectAndPositionGlasses returns (line 151):
\* once a call has settled nothing refers to it any more
IsPendingCall(call) == call.status = "pending"

StreakForget ==
    /\ \E c \in 1 .. Len(calls) : ~IsPendingCall(calls[c])
    /\ calls' = SelectSeq(calls, IsPendingCall)
    /\ UNCHANGED <<mounted, webcamRef, canvasRef, video, model, glassesMesh,
                   isLoading, glasses, pc, failure, deps, intervals,
                   nextIntervalId, stopped, lastTick>>

StreakNext ==
    \/ StreakTick
    \/ StreakResolveEmpty
    \/ StreakResolveFace
    \/ StreakReject
    \/ StreakForget

\* the interval keeps firing every 20 ms while it is not cleared; settled
\* calls are released; the detector returns a face again and again when it
\* is asked again and again
StreakFairness ==
    /\ WF_vars(StreakTick)
    /\ WF_vars(StreakForget)
    /\ SF_vars(StreakResolveFace)

StreakSpec == StreakInit /\ [][StreakNext]_vars /\ StreakFairness

\* ------------------------------------------------------------ properties
\* the calls a step settles, and how
Settles(c) == c \in Pending /\ calls'[c].status # "pending"

ResolvesWith(c, n) ==
    c \in Pending /\ calls'[c].status = "resolved" /\ calls'[c].faces = n

Rejects(c) == c \in Pending /\ calls'[c].status = "rejected"

\* a step that issues an estimateFaces call
Issues == Len(calls') > Len(calls)

\* a step that changes the transform of the existing glasses object
WritesGlasses == glasses # NoObject /\ glasses' # glasses

\* a pose some cycle has applied: position.z is only ever set by line 123
PoseApplied == glasses # NoObject /\ glasses.position.z = PositionZ * PosDen

InitFailed == failure \in {"camera", "model", "asset"}

\* C1: the transform of the glasses object is changed only by the resolution
\* of a call that was issued with every readiness flag true and that
\* returned at least one face.
C1_WriteOnlyByReadyCycleWithFace ==
    [][WritesGlasses =>
          \E c \in Pending : calls[c].ready /\ ResolvesWith(c, 1)]_vars

C1_Witness ==
    /\ PoseApplied
    /\ \E c \in 1 .. Len(calls) :
          calls[c].status = "resolved" /\ calls[c].faces = 1 /\ calls[c].ready

\* C2: once the scheduler is stopped (no timer is left), the transform of
\* the glasses object is never written again, also not by a call issued
\* before the stop.
C2_NoWriteAfterStop ==
    [][DOMAIN intervals = {} => ~WritesGlasses]_vars

\* C3: a step issues an estimateFaces call only in a state where the webcam
\* reference is set, the video is in ready state 4, the model is loaded and
\* the glasses mesh is loaded.
C3_NoCallUnlessReady ==
    [][Issues => AllReady]_vars

C3_Witness ==
    /\ lastTick.outcome = "idle"
    /\ lastTick.interval \in DOMAIN intervals
    /\ intervals[lastTick.interval].model # Null
    /\ intervals[lastTick.interval].glassesMesh # Null
    /\ video.readyState # HAVE_ENOUGH_DATA
    /\ calls = <<>>

\* C4: the resolution of a call with an empty result leaves position, scale
\* and rotation of the glasses object as they were.
C4_EmptyResultLeavesPose ==
    [][\A c \in Pending : ResolvesWith(c, 0) => glasses' = glasses]_vars

C4_Witness ==
    /\ PoseApplied
    /\ \E c \in 1 .. Len(calls) :
          calls[c].status = "resolved" /\ calls[c].faces = 0

\* C5: a timer whose clearInterval has run is no longer active, no callback
\* of it runs, and no estimateFaces call is issued by it.
C5_NoTickAfterStop ==
    [][/\ \A id \in stopped' : id \notin DOMAIN intervals'
       /\ lastTick' # lastTick => lastTick'.interval \notin stopped
       /\ Issues => calls'[Len(calls')].interval \notin stopped]_vars

C5_Witness ==
    /\ ~mounted
    /\ DOMAIN intervals = {}
    /\ \E c \in 1 .. Len(calls) : calls[c].interval \in stopped

\* C6: when one of the three initializations has failed, each of the other
\* two has completed or can still complete.
ModelPathAlive == model # Null \/ pc \in {"getUserMedia", "setBackend", "load"}

AssetPathAlive ==
    glassesMesh # Null \/ pc \in {"getUserMedia", "setBackend", "load", "gltf"}

C6_InitIndependent ==
    mounted =>
       /\ failure = "camera" => ModelPathAlive /\ AssetPathAlive
       /\ failure = "model" => AssetPathAlive

\* C7: once the camera, model or asset initialization has failed, no step
\* issues an estimateFaces call or writes the glasses object.
C7_FailedInitStaysIdle ==
    [][InitFailed => ~Issues /\ glasses' = glasses]_vars

C7_Witness ==
    /\ failure = "asset"
    /\ CameraReady
    /\ model # Null
    /\ lastTick.outcome = "idle"
    /\ lastTick.interval \in DOMAIN intervals
    /\ intervals[lastTick.interval].model # Null

\* C8: the rejection of an estimateFaces call writes nothing to the glasses
\* object and leaves the timers as they are; as long as the component is
\* mounted after a rejection, a timer is active.
C8_RejectionAbsorbed ==
    [][/\ \A c \in Pending : Rejects(c) =>
              glasses' = glasses /\ intervals' = intervals
       /\ (mounted' /\ \E c \in 1 .. Len(calls') : calls'[c].status = "rejected")
              => DOMAIN intervals' # {}]_vars

C8_Witness ==
    /\ PoseApplied
    /\ \E c \in 1 .. Len(calls) : \E d \in 1 .. Len(calls) :
          /\ calls[c].status = "rejected"
          /\ calls[d].rejectedBefore
          /\ calls[d].status = "resolved"
          /\ calls[d].faces = 1

\* C9 as stated: while the component is mounted, the model handle, the
\* glasses-mesh handle and the camera readiness, once ready, stay ready.
C9_FlagsMonotonic ==
    [][mounted' =>
          /\ model # Null => model' # Null
          /\ glassesMesh # Null => glassesMesh' # Null
          /\ CameraReady => CameraReady']_vars

\* C9 amended: the model handle and the glasses-mesh handle, once set, are
\* never reset; the camera readiness is read from the video at each tick.
C9_HandlesMonotonic ==
    [][/\ model # Null => model' # Null
       /\ glassesMesh # Null => glassesMesh' # Null]_vars

C9_Witness ==
    /\ mounted
    /\ model # Null
    /\ glassesMesh # Null
    /\ video.readyState = HAVE_NOTHING
    /\ \E c \in 1 .. Len(calls) : calls[c].status = "rejected"

\* C10: whenever the glasses object exists, rotation.y equals rotation.z.
C10_YawEqualsRoll ==
    glasses # NoObject => glasses.rotation.y = glasses.rotation.z

C10_Witness ==
    /\ PoseApplied
    /\ glasses.rotation.y # ZeroAngle
    /\ glasses.rotation.y # glasses.rotation.x
    /\ \E c \in 1 .. Len(calls) :
          calls[c].status = "resolved" /\ calls[c].faces = 0

\* C11: a pose applied from keypoints whose left-eye and right-eye points
\* coincide has scale 0 on every axis, position.x = (eyeCenter.x -
\* videoWidth / 2) * scaleX + offsetX and position.y = (eyeCenter.y -
\* videoHeight / 2) * -scaleY + offsetY.
C11_DegeneratePose ==
    \A c \in 1 .. Len(calls) :
       (calls[c].status = "resolved" /\ calls[c].kp[LeftEyeIdx] = calls[c].kp[RightEyeIdx])
       => /\ glasses.scale = [x |-> 0, y |-> 0, z |-> 0]
          /\ 2 * ScaleXDen * (glasses.position.x - OffsetX)
                = (2 * calls[c].kp[EyeCenterIdx][1] - video.videoWidth) * PosDen
          /\ 2 * ScaleYDen * (glasses.position.y - OffsetY)
                = (video.videoHeight - 2 * calls[c].kp[EyeCenterIdx][2]) * PosDen

C11_Witness ==
    \E c \in 1 .. Len(calls) :
       /\ calls[c].status = "resolved"
       /\ calls[c].kp[LeftEyeIdx] = calls[c].kp[RightEyeIdx]
       /\ calls[c].kp[EyeCenterIdx] = <<2, 0>>
       /\ video.videoWidth = 3
       /\ glasses.position.x = 1
       /\ glasses.scale.x = 0

\* the frames a pose can be computed against, and the transforms whose nine
\* fields all come from one keypoint set and one frame
Frames ==
    {[videoWidth |-> 0, videoHeight |-> 0]}
    \cup {[videoWidth |-> size[1], videoHeight |-> size[2]] : size \in FrameSizes}

PoseImages ==
    {[position |-> [x |-> PositionXOf(kp, v), y |-> PositionYOf(kp, v),
                    z |-> PositionZ * PosDen],
      scale    |-> [x |-> ScaleMultiplier(kp), y |-> ScaleMultiplier(kp),
                    z |-> ScaleMultiplier(kp)],
      rotation |-> [x |-> AngleX(kp), y |-> AngleY(kp), z |-> AngleZ(kp)]]
        : kp \in KeypointSets, v \in Frames}

\* C12: in every state, also with several calls in flight, the glasses
\* object is as the loader left it or its position, scale and rotation are
\* together the pose of one keypoint set and one frame size.
C12_PoseFromOneCycle ==
    (glasses # NoObject /\ glasses # LoadedGlasses) => glasses \in PoseImages

C12_Witness ==
    /\ Cardinality({c \in 1 .. Len(calls) : calls[c].status = "pending"}) = 1
    /\ \E c \in 1 .. Len(calls) : calls[c].status = "resolved" /\ calls[c].faces = 1
    /\ glasses \in PoseImages
    /\ glasses.scale.x # 0
    /\ glasses.rotation.x # glasses.rotation.y

\* a step in which an interval callback ran and left a visible trace
TickStep == lastTick' # lastTick \/ Issues

\* C13 as stated: every tick that fires while the webcam is ready, the model
\* is loaded and the glasses mesh is loaded issues a new estimateFaces call.
C13_EveryReadyTickIssues ==
    [][(TickStep /\ AllReady)
          => /\ lastTick'.outcome = "issued"
             /\ Len(calls') = Len(calls) + 1]_vars

\* C13: every tick of a timer whose callback captured a loaded model and a
\* loaded glasses mesh, fired while the webcam reference is set and the
\* video is in ready state 4, appends one new pending estimateFaces call,
\* however many earlier calls are still pending.
C13_ReadyClosureTickIssues ==
    [][(/\ TickStep
        /\ webcamRef /\ video.readyState = HAVE_ENOUGH_DATA
        /\ lastTick'.interval \in DOMAIN intervals
        /\ intervals[lastTick'.interval].model # Null
        /\ intervals[lastTick'.interval].glassesMesh # Null)
          => /\ lastTick'.outcome = "issued"
             /\ Len(calls') = Len(calls) + 1
             /\ calls'[Len(calls')].status = "pending"
             /\ \A c \in 1 .. Len(calls) : calls'[c] = calls[c]]_vars

C13_Witness ==
    /\ Cardinality({c \in 1 .. Len(calls) : calls[c].status = "pending"}) >= 2
    /\ lastTick.outcome = "issued"
    /\ calls[Len(calls)].interval = lastTick.interval

\* a streak of empty detections: no pose has been applied yet and a call has
\* resolved without a face
EmptyStreak ==
    /\ glasses = LoadedGlasses
    /\ \E c \in 1 .. Len(calls) : calls[c].status = "resolved" /\ calls[c].faces = 0

\* C14: with every readiness flag true, an empty detection never stops the
\* interval, calls keep being issued for ever, and after a streak of empty
\* detections a pose is eventually written once the detector returns faces
\* again.
C14_StreakTolerated ==
    /\ [](DOMAIN intervals # {})
    /\ []<><<Issues>>_vars
    /\ EmptyStreak ~> PoseApplied

C14_Witness ==
    /\ Len(calls) = 2
    /\ calls[1].status = "resolved" /\ calls[1].faces = 0
    /\ calls[2].status = "resolved" /\ calls[2].faces = 1
    /\ PoseApplied
    /\ DOMAIN intervals # {}

\* C15: in every state in which the glasses object exists its scale is the
\* same on the three axes, as loaded and after every applied cycle.
C15_UniformScale ==
    glasses # NoObject
       => /\ glasses.scale.x = glasses.scale.y
          /\ glasses.scale.y = glasses.scale.z

C15_Witness ==
    /\ glasses # NoObject
    /\ glasses.position.z = PositionZ * PosDen
    /\ glasses.scale.x \notin {0, InitialScale}
    /\ glasses.scale.z = glasses.scale.x

\* C16: in every state at most one interval timer is active, and a run of
\* the scheduling effect leaves exactly the timer it created, the previous
\* one being cleared in the same step.
C16_AtMostOneTimer ==
    /\ Cardinality(DOMAIN intervals) <= 1
    /\ \A id \in DOMAIN intervals : id = nextIntervalId - 1

C16_Witness ==
    /\ DOMAIN intervals = {3}
    /\ intervals[3].model # Null
    /\ intervals[3].glassesMesh # Null
    /\ lastTick.interval = 3
    /\ lastTick.outcome = "issued"
    /\ stopped = {1, 2}

\* the result of a call issued after call c has already been applied
LaterApplied(c) ==
    \E d \in (c + 1) .. Len(calls) :
        calls[d].status = "resolved" /\ calls[d].faces > 0

\* C17: calls are numbered in issue order; no step applies the result of a
\* call after the result of a call issued later than it has been applied.
C17_NoRegressInIssueOrder ==
    [][\A c \in 1 .. Len(calls) :
          (/\ calls[c].status = "pending"
           /\ calls'[c].status = "resolved"
           /\ calls'[c].faces > 0) => ~LaterApplied(c)]_vars

====
